---- MODULE Spec2Model ----
(***************************************************************************)
(* buffer_pool<SPAN> (the refined header) as a state machine.              *)
(*                                                                         *)
(* Addresses are byte offsets from std::begin(m_memory): the arena is      *)
(* [0, ArenaSize).  A span is a record [data, size]; the default span is   *)
(* [data |-> nullptr, size |-> 0].  A Chunk object is a record             *)
(* [alive, m_chunk, m_pool]: alive says the C++ object exists, m_pool is   *)
(* TRUE when the pointer refers to the pool and FALSE when it is nullptr.  *)
(***************************************************************************)
EXTENDS Integers, Sequences, FiniteSets, TLC

\* ------------------------------------------------------------------ bounds
ArenaSize == 4
MaxHandles == 2
\* size_t is 64 bits wide; TLC's integers are 32 bits wide, so the unsigned
\* wrap-around of size_t is modelled at this width (far above ArenaSize).
SizeBits == 16
\* Once the bookkeeping is corrupted request() can hand out addresses past
\* the end of the arena without limit; the model follows them this far past
\* it and no further.
Overrun == 1
\* Segments that lose their Chunk stay in m_chunks for good; the model
\* follows the vector up to this many entries.
MaxSegments == 4

Handles == 1..MaxHandles
AddrLimit == ArenaSize + Overrun
nullptr == 0 - 1
SizeMod == 2 ^ SizeBits

VARIABLES
    m_chunks,   \* std::vector<mgm_chunk>: sequence of [m_first, m_inUse]
    m_last,     \* first unused address of the managed memory
    chunks,     \* the Chunk objects of the caller, by handle
    ndebug,     \* the build: TRUE when assert() is compiled out (NDEBUG)
    status,     \* "running" | "aborted" (assert failed) | "undefined" (UB)
    ret         \* the last completed call and how it ended

vars == <<m_chunks, m_last, chunks, ndebug, status, ret>>

\* ------------------------------------------------------------- data types
\* static_cast<size_t>(ptrdiff_t) and size_t arithmetic.
ToSizeT(x) == x % SizeMod

\* span_t()
EmptySpan == [data |-> nullptr, size |-> 0]

\* span_t(begin, size)
Span(begin, size) == [data |-> begin, size |-> size]

\* std::end(span)
SpanEnd(s) == s.data + s.size

\* mgm_chunk(first, inUse)
mgm_chunk(first, inUse) == [m_first |-> first, m_inUse |-> inUse]

\* The slot of a Chunk object that does not exist (never built or destroyed).
NoChunk == [alive |-> FALSE, m_chunk |-> EmptySpan, m_pool |-> FALSE]

\* Chunk()
DefaultChunk == [alive |-> TRUE, m_chunk |-> EmptySpan, m_pool |-> FALSE]

\* Chunk(begin, size, pool)
NewChunk(begin, size) == [alive |-> TRUE, m_chunk |-> Span(begin, size), m_pool |-> TRUE]

\* Chunk::valid()
valid(c) == c.m_pool

\* ---------------------------------------------------- std::vector helpers
\* vector::erase(it)
Erase(v, i) == SubSeq(v, 1, i - 1) \o SubSeq(v, i + 1, Len(v))

\* vector::insert(it, x): x is placed before position i
Insert(v, i, x) == SubSeq(v, 1, i - 1) \o <<x>> \o SubSeq(v, i, Len(v))

\* std::find_if(begin, end, e.m_first == p): first match, Len + 1 for end()
FindFirst(v, p) ==
    IF \E i \in 1..Len(v) : v[i].m_first = p
    THEN CHOOSE i \in 1..Len(v) :
            /\ v[i].m_first = p
            /\ \A j \in 1..(i - 1) : v[j].m_first # p
    ELSE Len(v) + 1

\* ------------------------------------------------------------ pool queries
\* buffer_pool::size() const
PoolSize == ArenaSize

\* buffer_pool::size(const mgm_chunk&): the segment is looked up by its
\* m_first, and the distance to the next start (or m_last) is returned as
\* size_t.
SegSize(v, last, c) ==
    LET it == FindFirst(v, c.m_first)
    IN  IF it + 1 <= Len(v)
        THEN ToSizeT(v[it + 1].m_first - c.m_first)
        ELSE ToSizeT(last - c.m_first)

RECURSIVE Accumulate(_, _, _, _)
Accumulate(v, last, i, acc) ==
    IF i > Len(v) THEN acc
    ELSE Accumulate(v, last, i + 1,
                    ToSizeT(acc + (IF v[i].m_inUse THEN SegSize(v, last, v[i]) ELSE 0)))

\* buffer_pool::used_mem()
used_mem_of(v, last) == Accumulate(v, last, 1, 0)
used_mem == used_mem_of(m_chunks, m_last)

\* buffer_pool::free_mem()
free_mem == ToSizeT(PoolSize - used_mem)

\* buffer_pool::num_chunks()
num_chunks == Len(m_chunks)

\* buffer_pool::used_chunks()
used_chunks == Cardinality({i \in 1..Len(m_chunks) : m_chunks[i].m_inUse})

\* buffer_pool::unused_chunks()
unused_chunks == Cardinality({i \in 1..Len(m_chunks) : ~m_chunks[i].m_inUse})

\* buffer_pool::find_chunk(chunk)
find_chunk(v, c) == FindFirst(v, c.m_chunk.data)

\* --------------------------------------------------------- pool operations
\* What a pool operation hands back: how it ended and the pool it leaves.
PoolResult(outcome, v, last, begin) ==
    [outcome |-> outcome, m_chunks |-> v, m_last |-> last, begin |-> begin]

\* The free segments request() accepts: !c.m_inUse && size(c) >= size
Fits(v, last, size) ==
    {i \in 1..Len(v) : ~v[i].m_inUse /\ SegSize(v, last, v[i]) >= size}

\* request_append with the segment appended and m_last advanced before the
\* rest of the memory is checked, so that a failing call leaves both behind.
request_append_checkedLate(v, last, size, nd) ==
    LET rest == ArenaSize - last
        v1   == Append(v, mgm_chunk(last, TRUE))
    IN  IF ~nd /\ rest < 0
        THEN PoolResult("abort", v, last, nullptr)
        ELSE IF ToSizeT(rest) < size
        THEN PoolResult("overflow_error", v1, last + size, nullptr)
        ELSE PoolResult("chunk", v1, last + size, last)

\* request(), the branch rit == rend(m_chunks): take the unclaimed rest.
request_append(v, last, size, nd) ==
    LET rest == ArenaSize - last
    IN  IF ~nd /\ rest < 0
        THEN PoolResult("abort", v, last, nullptr)
        ELSE IF ToSizeT(rest) < size
        THEN PoolResult("overflow_error", v, last, nullptr)
        ELSE PoolResult("chunk", Append(v, mgm_chunk(last, TRUE)), last + size, last)

\* request_reuse with the remainder segment inserted whether or not the
\* free segment is larger than the request.
request_reuse_alwaysInsert(v, last, size, it) ==
    LET begin == v[it].m_first
        v1    == [v EXCEPT ![it].m_inUse = TRUE]
    IN  PoolResult("chunk", Insert(v1, it + 1, mgm_chunk(begin + size, FALSE)),
                   last, begin)

\* request(), the else branch: re-use the free segment found from the back.
request_reuse(v, last, size, it) ==
    LET begin == v[it].m_first
        v1    == [v EXCEPT ![it].m_inUse = TRUE]
    IN  IF SegSize(v1, last, v1[it]) # size
        THEN PoolResult("chunk", Insert(v1, it + 1, mgm_chunk(begin + size, FALSE)),
                        last, begin)
        ELSE PoolResult("chunk", v1, last, begin)

\* buffer_pool::request(size)
request(v, last, size, nd) ==
    IF ~nd /\ ~(size < PoolSize)
    THEN PoolResult("abort", v, last, nullptr)
    ELSE LET fits == Fits(v, last, size)
         IN  IF fits = {}
             THEN request_append(v, last, size, nd)
             ELSE request_reuse(v, last, size,
                                CHOOSE i \in fits : \A j \in fits : j <= i)

\* buffer_pool::release(chunk), once the segment is found: merge with the
\* previous segment, then drop a last segment or merge with the next one.
release_found(v, last, it0) ==
    LET v1 == [v EXCEPT ![it0].m_inUse = FALSE]
        mergePrev == it0 # 1 /\ ~v1[it0 - 1].m_inUse
        v2 == IF mergePrev THEN Erase(v1, it0) ELSE v1
        it == IF mergePrev THEN it0 - 1 ELSE it0
    IN  IF it + 1 = Len(v2) + 1
        THEN PoolResult("ok", Erase(v2, it), v2[it].m_first, nullptr)
        ELSE IF ~v2[it + 1].m_inUse
        THEN PoolResult("ok", Erase(v2, it + 1), last, nullptr)
        ELSE PoolResult("ok", v2, last, nullptr)

\* buffer_pool::release(chunk).  With it == end(m_chunks) the assert stops a
\* build with assertions; without them the code dereferences end().
release(v, last, c, nd) ==
    LET it == find_chunk(v, c)
    IN  IF it = Len(v) + 1
        THEN PoolResult(IF nd THEN "undefined" ELSE "abort", v, last, nullptr)
        ELSE release_found(v, last, it)

\* buffer_pool::resize(chunk), once the segment is found.
resize_found(v, last, c, it) ==
    IF it + 1 # Len(v) + 1
    THEN IF v[it + 1].m_inUse
         THEN PoolResult("ok", Insert(v, it + 1, mgm_chunk(SpanEnd(c.m_chunk), FALSE)),
                         last, nullptr)
         ELSE PoolResult("ok", [v EXCEPT ![it + 1].m_first = SpanEnd(c.m_chunk)],
                         last, nullptr)
    ELSE PoolResult("ok", v, SpanEnd(c.m_chunk), nullptr)

\* buffer_pool::resize(chunk)
resize(v, last, c, nd) ==
    LET it == find_chunk(v, c)
    IN  IF it = Len(v) + 1
        THEN PoolResult(IF nd THEN "undefined" ELSE "abort", v, last, nullptr)
        ELSE resize_found(v, last, c, it)

\* -------------------------------------------------------- Chunk operations
\* What a Chunk member function hands back: the outcome, the pool it leaves,
\* the Chunk object afterwards, and whether buffer_pool::release ran.
ChunkResult(outcome, v, last, c, called) ==
    [outcome |-> outcome, m_chunks |-> v, m_last |-> last, chunk |-> c,
     poolRelease |-> called]

\* Chunk::release(): if (m_pool != nullptr) m_pool->release(*this);
\*                   m_chunk = span_t();
Chunk_release(v, last, c, nd) ==
    IF c.m_pool
    THEN LET r == release(v, last, c, nd)
         IN  IF r.outcome = "ok"
             THEN ChunkResult("ok", r.m_chunks, r.m_last,
                              [c EXCEPT !.m_chunk = EmptySpan], TRUE)
             ELSE ChunkResult(r.outcome, v, last, c, TRUE)
    ELSE ChunkResult("ok", v, last, [c EXCEPT !.m_chunk = EmptySpan], FALSE)

\* Chunk::shrink(newSize), for newSize <= m_chunk.size()
Chunk_shrink(v, last, c, newSize, nd) ==
    IF newSize # c.m_chunk.size
    THEN LET c1 == [c EXCEPT !.m_chunk = Span(c.m_chunk.data, newSize)]
             r  == resize(v, last, c1, nd)
         IN  IF r.outcome = "ok"
             THEN ChunkResult("ok", r.m_chunks, r.m_last, c1, FALSE)
             ELSE ChunkResult(r.outcome, v, last, c, FALSE)
    ELSE ChunkResult("ok", v, last, c, FALSE)

\* Chunk_swap with the second swap left out: the views change places, the
\* pool pointers stay.
Chunk_swap_viewOnly(this, orig) ==
    << [this EXCEPT !.m_chunk = orig.m_chunk],
       [orig EXCEPT !.m_chunk = this.m_chunk] >>

\* swap(orig.m_chunk, m_chunk); swap(orig.m_pool, m_pool): the pair
\* <<this, orig>> after the two swaps of Chunk(Chunk&&) and operator=(Chunk&&)
Chunk_swap(this, orig) ==
    << [this EXCEPT !.m_chunk = orig.m_chunk, !.m_pool = orig.m_pool],
       [orig EXCEPT !.m_chunk = this.m_chunk, !.m_pool = this.m_pool] >>

\* ------------------------------------------------------------------ state
Call(op, h, src, size, outcome, called) ==
    [op |-> op, h |-> h, src |-> src, size |-> size, outcome |-> outcome,
     poolRelease |-> called]

\* buffer_pool(span_t memory): no segment, m_last at the start of the memory
Init ==
    /\ m_chunks = << >>
    /\ m_last = 0
    /\ chunks = [h \in Handles |-> NoChunk]
    /\ ndebug \in BOOLEAN
    /\ status = "running"
    /\ ret = Call("buffer_pool", 0, 0, 0, "ok", FALSE)

\* How a call that did not return normally leaves the process.  An assert
\* that fails aborts.  Undefined behaviour either stops the process (or
\* corrupts it beyond what is tracked here), or has no visible effect.
Ends(outcome) ==
    IF outcome = "abort" THEN {"aborted"}
    ELSE IF outcome = "undefined" THEN {"undefined", "running"}
    ELSE {"running"}

\* A new Chunk object takes the lowest handle that names no object: which
\* handle names an object makes no difference to the program.
Fresh(h) == ~chunks[h].alive /\ \A g \in 1..(h - 1) : chunks[g].alive

\* Chunk c = pool.request(size): the returned Chunk is move-constructed (or
\* elided) into the object h.
RequestOf(h, size) ==
    /\ status = "running"
    /\ Fresh(h)
    /\ LET r == request(m_chunks, m_last, size, ndebug)
       IN  /\ Len(r.m_chunks) <= MaxSegments
           /\ r.m_last <= AddrLimit
           /\ \A i \in 1..Len(r.m_chunks) : r.m_chunks[i].m_first <= AddrLimit
           /\ m_chunks' = r.m_chunks
           /\ m_last' = r.m_last
           /\ chunks' = IF r.outcome = "chunk"
                        THEN [chunks EXCEPT ![h] = NewChunk(r.begin, size)]
                        ELSE chunks
           /\ status' = IF r.outcome = "abort" THEN "aborted" ELSE "running"
           /\ ret' = Call("request", h, 0, size, r.outcome, FALSE)
    /\ UNCHANGED ndebug

\* request(size) within its documented precondition, 1 <= size < size()
Request(h) == \E size \in 1..(PoolSize - 1) : RequestOf(h, size)

\* request(size) with a size outside of it: 0, size() and size() + 1
RequestInvalid(h) == \E size \in {0, PoolSize, PoolSize + 1} : RequestOf(h, size)

\* Chunk c;  (the default constructor)
DefaultConstruct(h) ==
    /\ status = "running"
    /\ Fresh(h)
    /\ chunks' = [chunks EXCEPT ![h] = DefaultChunk]
    /\ ret' = Call("Chunk", h, 0, 0, "ok", FALSE)
    /\ UNCHANGED <<m_chunks, m_last, ndebug, status>>

\* Chunk c(std::move(orig))
MoveConstruct(h, src) ==
    /\ status = "running"
    /\ Fresh(h)
    /\ chunks[src].alive
    /\ LET p == Chunk_swap(DefaultChunk, chunks[src])
       IN  chunks' = [chunks EXCEPT ![h] = p[1], ![src] = p[2]]
    /\ ret' = Call("move_ctor", h, src, 0, "ok", FALSE)
    /\ UNCHANGED <<m_chunks, m_last, ndebug, status>>

\* c = std::move(orig)
MoveAssign(h, src) ==
    /\ status = "running"
    /\ chunks[h].alive
    /\ chunks[src].alive
    /\ h # src
    /\ LET p == Chunk_swap(chunks[h], chunks[src])
       IN  chunks' = [chunks EXCEPT ![h] = p[1], ![src] = p[2]]
    /\ ret' = Call("move_assign", h, src, 0, "ok", FALSE)
    /\ UNCHANGED <<m_chunks, m_last, ndebug, status>>

\* c.shrink(newSize) with newSize <= c.m_chunk.size()
Shrink(h) ==
    /\ status = "running"
    /\ chunks[h].alive
    /\ \E newSize \in 0..chunks[h].m_chunk.size :
         LET r == Chunk_shrink(m_chunks, m_last, chunks[h], newSize, ndebug)
         IN  /\ Len(r.m_chunks) <= MaxSegments
             /\ m_chunks' = r.m_chunks
             /\ m_last' = r.m_last
             /\ chunks' = [chunks EXCEPT ![h] = r.chunk]
             /\ status' \in Ends(r.outcome)
             /\ ret' = Call("shrink", h, 0, newSize, r.outcome, FALSE)
    /\ UNCHANGED ndebug

\* c.release()
Release(h) ==
    /\ status = "running"
    /\ chunks[h].alive
    /\ LET r == Chunk_release(m_chunks, m_last, chunks[h], ndebug)
       IN  /\ m_chunks' = r.m_chunks
           /\ m_last' = r.m_last
           /\ chunks' = [chunks EXCEPT ![h] = r.chunk]
           /\ status' \in Ends(r.outcome)
           /\ ret' = Call("release", h, 0, 0, r.outcome, r.poolRelease)
    /\ UNCHANGED ndebug

\* ~Chunk() { release(); }: the object is gone once it returns
Destroy(h) ==
    /\ status = "running"
    /\ chunks[h].alive
    /\ LET r == Chunk_release(m_chunks, m_last, chunks[h], ndebug)
       IN  /\ m_chunks' = r.m_chunks
           /\ m_last' = r.m_last
           /\ chunks' = [chunks EXCEPT ![h] = IF r.outcome = "ok" THEN NoChunk ELSE r.chunk]
           /\ status' \in Ends(r.outcome)
           /\ ret' = Call("destroy", h, 0, 0, r.outcome, r.poolRelease)
    /\ UNCHANGED ndebug

\* Every call sequence that keeps to the documented preconditions.
Next ==
    \E h \in Handles :
        \/ Request(h)
        \/ DefaultConstruct(h)
        \/ Shrink(h)
        \/ Release(h)
        \/ Destroy(h)
        \/ \E src \in Handles : MoveConstruct(h, src)
        \/ \E src \in Handles : MoveAssign(h, src)

Spec == Init /\ [][Next]_vars

\* The same, with request() also called outside its precondition.
NextAnySize ==
    \E h \in Handles :
        \/ Request(h)
        \/ RequestInvalid(h)
        \/ DefaultConstruct(h)
        \/ Shrink(h)
        \/ Release(h)
        \/ Destroy(h)
        \/ \E src \in Handles : MoveConstruct(h, src)
        \/ \E src \in Handles : MoveAssign(h, src)

SpecAnySize == Init /\ [][NextAnySize]_vars

\* ------------------------------------------- the first header (buffer_pool.hpp)
\* The first header keeps the same members m_chunks, m_last and the same
\* Chunk fields; its Chunk has no default constructor, no move assignment,
\* no shrink() and no release().

\* buffer_pool::size(const mgm_chunk&): 0 when no segment has this m_first
first_size(v, last, c) ==
    LET it == FindFirst(v, c.m_first)
    IN  IF it <= Len(v)
        THEN IF it + 1 <= Len(v)
             THEN ToSizeT(v[it + 1].m_first - c.m_first)
             ELSE ToSizeT(last - c.m_first)
        ELSE 0

RECURSIVE first_Accumulate(_, _, _, _)
first_Accumulate(v, last, i, acc) ==
    IF i > Len(v) THEN acc
    ELSE first_Accumulate(v, last, i + 1,
                          ToSizeT(acc + (IF v[i].m_inUse THEN first_size(v, last, v[i]) ELSE 0)))

\* buffer_pool::used_mem()
first_used_mem_of(v, last) == first_Accumulate(v, last, 1, 0)
first_used_mem == first_used_mem_of(m_chunks, m_last)

\* buffer_pool::free_mem()
first_free_mem == ToSizeT(PoolSize - first_used_mem)

\* The free segments request() accepts: !c.m_inUse && size(c) >= size
first_Fits(v, last, size) ==
    {i \in 1..Len(v) : ~v[i].m_inUse /\ first_size(v, last, v[i]) >= size}

\* buffer_pool::request(size).  The new segment is appended and m_last is
\* advanced before the rest of the memory is compared with size (as size_t);
\* a re-used segment is always followed by a new free segment.
first_request(v, last, size, nd) ==
    IF ~nd /\ ~(size < PoolSize)
    THEN PoolResult("abort", v, last, nullptr)
    ELSE LET fits == first_Fits(v, last, size)
         IN  IF fits = {}
             THEN LET v1 == Append(v, mgm_chunk(last, TRUE))
                  IN  IF ToSizeT(ArenaSize - last) < size
                      THEN PoolResult("runtime_error", v1, last + size, nullptr)
                      ELSE PoolResult("chunk", v1, last + size, last)
             ELSE LET it == CHOOSE i \in fits : \A j \in fits : j <= i
                      begin == v[it].m_first
                      v1 == [v EXCEPT ![it].m_inUse = TRUE]
                  IN  PoolResult("chunk",
                                 Insert(v1, it + 1, mgm_chunk(begin + size, FALSE)),
                                 last, begin)

\* buffer_pool::release(chunk): the segment is marked free and stays in the
\* vector; m_last goes back to its start when it is the last one.
first_release(v, last, c) ==
    LET it == find_chunk(v, c)
    IN  IF it <= Len(v)
        THEN PoolResult("ok", [v EXCEPT ![it].m_inUse = FALSE],
                        IF it = Len(v) THEN v[it].m_first ELSE last, nullptr)
        ELSE PoolResult("ok", v, last, nullptr)

\* Chunk c = pool.request(size).  begin + size past the end of the memory is
\* a pointer the language does not define: the process either goes on with
\* the computed address or is lost.
RequestFirstOf(h, size) ==
    /\ status = "running"
    /\ Fresh(h)
    /\ LET r == first_request(m_chunks, m_last, size, ndebug)
       IN  /\ Len(r.m_chunks) <= MaxSegments
           /\ r.m_last <= AddrLimit
           /\ \A i \in 1..Len(r.m_chunks) : r.m_chunks[i].m_first <= AddrLimit
           /\ m_chunks' = r.m_chunks
           /\ m_last' = r.m_last
           /\ chunks' = IF r.outcome = "chunk"
                        THEN [chunks EXCEPT ![h] = NewChunk(r.begin, size)]
                        ELSE chunks
           /\ status' \in (IF r.outcome = "abort" THEN {"aborted"}
                           ELSE IF r.m_last > ArenaSize THEN {"running", "undefined"}
                           ELSE {"running"})
           /\ ret' = Call("request", h, 0, size, r.outcome, FALSE)
    /\ UNCHANGED ndebug

\* request(size) within its precondition, 1 <= size < size()
RequestFirst(h) == \E size \in 1..(PoolSize - 1) : RequestFirstOf(h, size)

\* request(size) within its precondition, for the calls that return a Chunk
RequestFirstOK(h) ==
    \E size \in 1..(PoolSize - 1) :
        /\ first_request(m_chunks, m_last, size, ndebug).outcome = "chunk"
        /\ RequestFirstOf(h, size)

\* Chunk c(std::move(orig))
MoveConstructFirst(h, src) ==
    /\ status = "running"
    /\ Fresh(h)
    /\ chunks[src].alive
    /\ LET p == Chunk_swap(DefaultChunk, chunks[src])
       IN  chunks' = [chunks EXCEPT ![h] = p[1], ![src] = p[2]]
    /\ ret' = Call("move_ctor", h, src, 0, "ok", FALSE)
    /\ UNCHANGED <<m_chunks, m_last, ndebug, status>>

\* ~Chunk() { if (m_pool != nullptr) m_pool->release(*this); }
DestroyFirst(h) ==
    /\ status = "running"
    /\ chunks[h].alive
    /\ LET r == IF chunks[h].m_pool
                THEN first_release(m_chunks, m_last, chunks[h])
                ELSE PoolResult("ok", m_chunks, m_last, nullptr)
       IN  /\ m_chunks' = r.m_chunks
           /\ m_last' = r.m_last
    /\ chunks' = [chunks EXCEPT ![h] = NoChunk]
    /\ ret' = Call("destroy", h, 0, 0, "ok", chunks[h].m_pool)
    /\ UNCHANGED <<ndebug, status>>

\* Every call sequence on the first header within the preconditions.
NextFirst ==
    \E h \in Handles :
        \/ RequestFirst(h)
        \/ DestroyFirst(h)
        \/ \E src \in Handles : MoveConstructFirst(h, src)

SpecFirst == Init /\ [][NextFirst]_vars

\* The same, with only the requests that return a Chunk.
NextFirstOK ==
    \E h \in Handles :
        \/ RequestFirstOK(h)
        \/ DestroyFirst(h)
        \/ \E src \in Handles : MoveConstructFirst(h, src)

SpecFirstOK == Init /\ [][NextFirstOK]_vars

\* ----------------------------------------------------------------- claims
\* The Chunk objects for which valid() is true.
ValidHandles == {h \in Handles : chunks[h].alive /\ valid(chunks[h])}

\* The bytes of a Chunk's view, [begin, end).
View(c) == {a \in 0..(AddrLimit + ArenaSize) : c.m_chunk.data <= a /\ a < SpanEnd(c.m_chunk)}

RECURSIVE SumViews(_)
SumViews(H) ==
    IF H = {} THEN 0
    ELSE LET h == CHOOSE x \in H : TRUE
         IN  chunks[h].m_chunk.size + SumViews(H \ {h})

\* A segment's size as the data model defines it: from its start to the
\* start of the next segment in list order, or to m_last for the last one.
DerivedSize(v, last, i) ==
    (IF i < Len(v) THEN v[i + 1].m_first ELSE last) - v[i].m_first

\* C1: the views of two distinct valid Chunks share no byte, and every valid
\* Chunk's view lies inside the arena [0, ArenaSize).
C1_ViewsDisjointInArena ==
    status = "running" =>
        /\ \A g, h \in ValidHandles : g # h => View(chunks[g]) \cap View(chunks[h]) = {}
        /\ \A h \in ValidHandles : View(chunks[h]) \subseteq 0..(ArenaSize - 1)

\* C2: m_chunks has strictly increasing m_first values and no two adjacent
\* segments are both free.
C2_OrderedNoAdjacentFree ==
    status = "running" =>
        \A i \in 1..(Len(m_chunks) - 1) :
            /\ m_chunks[i].m_first < m_chunks[i + 1].m_first
            /\ m_chunks[i].m_inUse \/ m_chunks[i + 1].m_inUse

\* C3: used_mem() is the sum of the view sizes of the valid Chunks, and
\* free_mem() is size() minus that sum.
C3_UsedMemIsSumOfViews ==
    status = "running" =>
        /\ used_mem = SumViews(ValidHandles)
        /\ free_mem = PoolSize - SumViews(ValidHandles)

\* C4: a request() that throws std::overflow_error leaves the segment list,
\* m_last, used_mem() and every Chunk object as they were.
C4_FailedRequestLeavesPool ==
    [][(ret'.op = "request" /\ ret'.outcome = "overflow_error") =>
          /\ m_chunks' = m_chunks
          /\ m_last' = m_last
          /\ used_mem' = used_mem
          /\ chunks' = chunks]_vars

\* C4 witness: a request within the precondition failed for lack of space
\* while part of the pool was in use.
C4_Witness ==
    /\ ret.op = "request"
    /\ ret.outcome = "overflow_error"
    /\ ret.size \in 1..(PoolSize - 1)
    /\ used_mem > 0

\* C5: request(size) returns a Chunk exactly when a free segment of derived
\* size >= size exists or the unclaimed tail is >= size; the Chunk's view
\* then has size bytes; otherwise the call throws std::overflow_error.
C5_RequestSucceedsIffRegionFits ==
    [][(ret'.op = "request" /\ ret'.size \in 1..(PoolSize - 1)) =>
          LET room == \/ \E i \in 1..Len(m_chunks) :
                             /\ ~m_chunks[i].m_inUse
                             /\ DerivedSize(m_chunks, m_last, i) >= ret'.size
                      \/ ArenaSize - m_last >= ret'.size
          IN  /\ (ret'.outcome = "chunk") <=> room
              /\ ret'.outcome = "chunk" => chunks'[ret'.h].m_chunk.size = ret'.size
              /\ ret'.outcome # "chunk" => ret'.outcome = "overflow_error"]_vars

\* C6: request(size) with size = 0 or size >= size() returns no Chunk,
\* throws no std::overflow_error and leaves m_chunks and m_last alone.
C6_InvalidSizeRejected ==
    [][(ret'.op = "request" /\ (ret'.size = 0 \/ ret'.size >= PoolSize)) =>
          /\ ret'.outcome \notin {"chunk", "overflow_error"}
          /\ m_chunks' = m_chunks
          /\ m_last' = m_last]_vars

\* C7: after release() returns on a valid Chunk, valid() is false and the
\* view is empty.
C7_ReleasedHandleInvalid ==
    [][(ret'.op = "release" /\ ret'.outcome = "ok" /\ valid(chunks[ret'.h])) =>
          /\ ~valid(chunks'[ret'.h])
          /\ chunks'[ret'.h].m_chunk.size = 0]_vars

\* C8: release() or the destructor, called right after release() returned on
\* the same Chunk, does not call buffer_pool::release and leaves m_chunks
\* and m_last alone.
C8_SecondReleaseIsNoOp ==
    [][(/\ ret.op = "release"
        /\ ret.outcome = "ok"
        /\ ret'.op \in {"release", "destroy"}
        /\ ret'.h = ret.h) =>
          /\ ~ret'.poolRelease
          /\ status' = "running"
          /\ m_chunks' = m_chunks
          /\ m_last' = m_last]_vars

\* C9 as stated: after a move the destination holds the source's former
\* view and pool pointer, and the source is invalid with an empty view.
C9_MovedFromInvalid ==
    [][ret'.op \in {"move_ctor", "move_assign"} =>
          /\ chunks'[ret'.h].m_chunk = chunks[ret'.src].m_chunk
          /\ chunks'[ret'.h].m_pool = chunks[ret'.src].m_pool
          /\ chunks'[ret'.src].m_chunk = EmptySpan
          /\ ~chunks'[ret'.src].m_pool]_vars

\* C9 amended: after a move the destination holds the source's former view
\* and pool pointer; the source of a move construction is invalid with an
\* empty view, and the source of a move assignment holds the destination's
\* former view and pool pointer.
C9_MoveExchanges ==
    [][ret'.op \in {"move_ctor", "move_assign"} =>
          /\ chunks'[ret'.h].m_chunk = chunks[ret'.src].m_chunk
          /\ chunks'[ret'.h].m_pool = chunks[ret'.src].m_pool
          /\ ret'.op = "move_ctor" =>
                /\ chunks'[ret'.src].m_chunk = EmptySpan
                /\ ~chunks'[ret'.src].m_pool
          /\ ret'.op = "move_assign" =>
                /\ chunks'[ret'.src].m_chunk = chunks[ret'.h].m_chunk
                /\ chunks'[ret'.src].m_pool = chunks[ret'.h].m_pool]_vars

\* C9 witness: a move assignment onto a Chunk that owned memory has left
\* both objects valid, with two different non-empty views.
C9_Witness ==
    /\ ret.op = "move_assign"
    /\ status = "running"
    /\ valid(chunks[ret.h]) /\ chunks[ret.h].m_chunk.size > 0
    /\ valid(chunks[ret.src]) /\ chunks[ret.src].m_chunk.size > 0
    /\ chunks[ret.h].m_chunk # chunks[ret.src].m_chunk

\* C10: when no valid Chunk exists, used_mem() is 0, m_chunks is empty and
\* m_last is the start of the arena.
C10_AllReleasedPoolEmpty ==
    (status = "running" /\ ValidHandles = {}) =>
        /\ used_mem = 0
        /\ used_chunks = 0
        /\ unused_chunks = 0
        /\ m_last = 0

\* The in-use segments that back the Chunk c: those that start where its
\* view starts and whose derived size is the size of its view.
BackingSegs(v, last, c) ==
    {i \in 1..Len(v) : /\ v[i].m_inUse
                       /\ v[i].m_first = c.m_chunk.data
                       /\ DerivedSize(v, last, i) = c.m_chunk.size}

\* C11: a request(n) that returns a Chunk, followed at once by the release
\* (or destruction) of that Chunk, leaves the segment list, m_last,
\* used_mem() and free_mem() as they were before the request.
C11_RequestReleaseRestores ==
    status = "running" =>
        \A n \in 1..(PoolSize - 1) :
            LET r == request(m_chunks, m_last, n, ndebug)
                d == Chunk_release(r.m_chunks, r.m_last, NewChunk(r.begin, n), ndebug)
            IN  r.outcome = "chunk" =>
                    /\ d.outcome = "ok"
                    /\ d.m_chunks = m_chunks
                    /\ d.m_last = m_last
                    /\ used_mem_of(d.m_chunks, d.m_last) = used_mem
                    /\ ToSizeT(PoolSize - used_mem_of(d.m_chunks, d.m_last)) = free_mem

\* C12: shrink(newSize) with newSize below the current size keeps the start
\* of the view, makes the view newSize bytes long, lowers used_mem() by the
\* difference, and leaves every other valid Chunk's view and backing segment
\* alone.
C12_ShrinkFrame ==
    [][(/\ ret'.op = "shrink"
        /\ ret'.outcome = "ok"
        /\ valid(chunks[ret'.h])
        /\ ret'.size < chunks[ret'.h].m_chunk.size) =>
          /\ chunks'[ret'.h].m_chunk = Span(chunks[ret'.h].m_chunk.data, ret'.size)
          /\ used_mem' = used_mem - (chunks[ret'.h].m_chunk.size - ret'.size)
          /\ \A g \in ValidHandles \ {ret'.h} :
                /\ chunks'[g] = chunks[g]
                /\ BackingSegs(m_chunks, m_last, chunks[g]) # {} =>
                       BackingSegs(m_chunks', m_last', chunks[g]) # {}]_vars

\* C13: when a Chunk c of size s whose segment is not the last is shrunk to
\* n < s, and no free segment with a higher start can hold k, a request(k)
\* with 1 <= k <= s - n that follows at once returns a Chunk that starts at
\* the end of c's shrunk view.
C13_FreedSuffixReused ==
    status = "running" =>
        \A h \in ValidHandles :
            LET c  == chunks[h]
                it == find_chunk(m_chunks, c)
            IN  (it < Len(m_chunks) /\ m_chunks[it].m_inUse) =>
                    \A n \in 0..(c.m_chunk.size - 1) :
                        \A k \in 1..(c.m_chunk.size - n) :
                            LET sh == Chunk_shrink(m_chunks, m_last, c, n, ndebug)
                                rq == request(sh.m_chunks, sh.m_last, k, ndebug)
                                higher == \E i \in 1..Len(sh.m_chunks) :
                                             /\ ~sh.m_chunks[i].m_inUse
                                             /\ sh.m_chunks[i].m_first > c.m_chunk.data + n
                                             /\ DerivedSize(sh.m_chunks, sh.m_last, i) >= k
                            IN  (sh.outcome = "ok" /\ ~higher) =>
                                    /\ rq.outcome = "chunk"
                                    /\ rq.begin = c.m_chunk.data + n

\* C14: shrinking the Chunk that owns the last segment moves m_last to the
\* end of the shrunk view and adds no segment: num_chunks() and
\* unused_chunks() stay as they were.
C14_ShrinkLastRetracts ==
    [][(/\ ret'.op = "shrink"
        /\ ret'.outcome = "ok"
        /\ valid(chunks[ret'.h])
        /\ ret'.size < chunks[ret'.h].m_chunk.size
        /\ Len(m_chunks) \in BackingSegs(m_chunks, m_last, chunks[ret'.h])) =>
          /\ m_last' = chunks[ret'.h].m_chunk.data + ret'.size
          /\ num_chunks' = num_chunks
          /\ unused_chunks' = unused_chunks]_vars

\* The free segments whose derived size is at least size.
FreeFits(v, last, size) ==
    {i \in 1..Len(v) : ~v[i].m_inUse /\ DerivedSize(v, last, i) >= size}

\* C15: a request(size) that returns a Chunk starts it at the start of the
\* free segment with the greatest start among those of derived size >= size
\* and leaves m_last alone; when no free segment fits, the Chunk starts at
\* m_last.
C15_ReuseFromTailFirst ==
    [][(/\ ret'.op = "request"
        /\ ret'.outcome = "chunk"
        /\ ret'.size \in 1..(PoolSize - 1)) =>
          LET ff == FreeFits(m_chunks, m_last, ret'.size)
          IN  IF ff # {}
              THEN /\ \E i \in ff :
                        /\ \A j \in ff : m_chunks[j].m_first <= m_chunks[i].m_first
                        /\ chunks'[ret'.h].m_chunk.data = m_chunks[i].m_first
                   /\ m_last' = m_last
              ELSE chunks'[ret'.h].m_chunk.data = m_last]_vars

\* C16: used_chunks() is the number of valid Chunks, every valid Chunk has
\* an in-use segment with its start and its size, and every in-use segment
\* is the segment of exactly one valid Chunk.
C16_UsedChunksAreValidHandles ==
    status = "running" =>
        /\ used_chunks = Cardinality(ValidHandles)
        /\ \A h \in ValidHandles : BackingSegs(m_chunks, m_last, chunks[h]) # {}
        /\ \A i \in 1..Len(m_chunks) :
              m_chunks[i].m_inUse =>
                  Cardinality({h \in ValidHandles :
                                  i \in BackingSegs(m_chunks, m_last, chunks[h])}) = 1

\* C17: m_last lies in [0, ArenaSize]; with no segment it is 0; otherwise
\* the first segment starts at 0 and m_last is above the last segment's
\* start.
C17_HighWaterMark ==
    status = "running" =>
        /\ 0 <= m_last /\ m_last <= ArenaSize
        /\ Len(m_chunks) = 0 => m_last = 0
        /\ Len(m_chunks) > 0 =>
              /\ m_chunks[1].m_first = 0
              /\ m_last > m_chunks[Len(m_chunks)].m_first

\* C18: a release that reaches the pool leaves every other valid Chunk with
\* an in-use segment of the same start and derived size, and lowers
\* used_mem() by the size of the released Chunk.
C18_ReleaseFrame ==
    [][(/\ ret'.op \in {"release", "destroy"}
        /\ ret'.outcome = "ok"
        /\ ret'.poolRelease) =>
          /\ used_mem' = used_mem - chunks[ret'.h].m_chunk.size
          /\ \A g \in ValidHandles \ {ret'.h} :
                BackingSegs(m_chunks, m_last, chunks[g]) # {} =>
                    BackingSegs(m_chunks', m_last', chunks[g]) # {}]_vars

\* C19: releasing a Chunk whose segment is not the last changes
\* unused_chunks() by +1 when no neighbour is free, by 0 when exactly one
\* is, and by -1 when both are; used_chunks() goes down by 1.
C19_ReleaseMergeCounts ==
    [][(/\ ret'.op \in {"release", "destroy"}
        /\ ret'.outcome = "ok"
        /\ ret'.poolRelease
        /\ find_chunk(m_chunks, chunks[ret'.h]) < Len(m_chunks)
        /\ m_chunks[Len(m_chunks)].m_first # chunks[ret'.h].m_chunk.data) =>
          LET it == find_chunk(m_chunks, chunks[ret'.h])
              prevFree == it > 1 /\ ~m_chunks[it - 1].m_inUse
              nextFree == ~m_chunks[it + 1].m_inUse
          IN  /\ used_chunks' = used_chunks - 1
              /\ (~prevFree /\ ~nextFree) => unused_chunks' = unused_chunks + 1
              /\ (prevFree # nextFree) => unused_chunks' = unused_chunks
              /\ (prevFree /\ nextFree) => unused_chunks' = unused_chunks - 1]_vars

C21_LastSegmentInUse ==
    (status = "running" /\ Len(m_chunks) > 0) =>
        /\ m_chunks[Len(m_chunks)].m_inUse
        /\ DerivedSize(m_chunks, m_last, Len(m_chunks)) > 0

\* The number of in-use segments of a segment list.
InUse(v) == Cardinality({i \in 1..Len(v) : v[i].m_inUse})

\* C22: when a valid Chunk src is move-assigned onto a Chunk h that owns a
\* different chunk and both objects are then destroyed, each destructor
\* reaches buffer_pool::release, the two segments and no other stop being in
\* use, and the moved segment is still in use after src alone is destroyed.
C22_MoveAssignReleasesOnce ==
    status = "running" =>
        \A h, src \in ValidHandles :
            LET d  == chunks[h]
                s  == chunks[src]
                p  == Chunk_swap(d, s)
                r1 == Chunk_release(m_chunks, m_last, p[2], ndebug)
                r2 == Chunk_release(r1.m_chunks, r1.m_last, p[1], ndebug)
            IN  (/\ h # src
                 /\ d.m_chunk # s.m_chunk
                 /\ BackingSegs(m_chunks, m_last, d) # {}
                 /\ BackingSegs(m_chunks, m_last, s) # {}) =>
                    /\ r1.outcome = "ok" /\ r1.poolRelease
                    /\ BackingSegs(r1.m_chunks, r1.m_last, p[1]) # {}
                    /\ r2.outcome = "ok" /\ r2.poolRelease
                    /\ InUse(r2.m_chunks) = used_chunks - 2
                    /\ BackingSegs(r2.m_chunks, r2.m_last, d) = {}
                    /\ BackingSegs(r2.m_chunks, r2.m_last, s) = {}

\* The Chunk objects of the first header that refer to the pool.
LiveChunks == {h \in Handles : chunks[h].alive /\ chunks[h].m_pool}

\* C23: in the first header a request() that throws leaves m_chunks, m_last,
\* used_mem() and the Chunk objects as they were, with m_last inside the
\* memory.
C23_FirstFailedRequestLeavesPool ==
    [][(ret'.op = "request" /\ ret'.outcome = "runtime_error" /\ status' = "running") =>
          /\ m_chunks' = m_chunks
          /\ m_last' = m_last
          /\ m_last' <= ArenaSize
          /\ first_used_mem' = first_used_mem
          /\ chunks' = chunks]_vars

\* C24: in the first header, after requests that return a Chunk and
\* destructions, used_mem() is the sum of the sizes of the live Chunks, and
\* free_mem() is size() when no Chunk is left.
C24_FirstUsedMemIsSumOfViews ==
    status = "running" =>
        /\ first_used_mem = SumViews(LiveChunks)
        /\ LiveChunks = {} => first_free_mem = PoolSize

====
